---- MODULE Spec2Model ----
(***************************************************************************)
(* The sequential audio playback controller of App.tsx: the audioReducer   *)
(* state machine, the playback engine (the two useEffect hooks around      *)
(* playCurrentSegment), the segment buffer store (rehydrateAudio) and the  *)
(* handlers that replace the story.                                        *)
(*                                                                         *)
(* Scheduling.  The program is single-threaded and event-driven.  A        *)
(* handler and the render of the updates it dispatches are one step; the   *)
(* effects of that render (useEffect) are the next step, RunEffect, which  *)
(* React runs before any further event is handled, so the committed state  *)
(* between a render and its effects is a state of the model but no other   *)
(* handler runs in it.  The suspension points are the external ones: the   *)
(* settling of AudioContext.resume(), a source's ended event and the       *)
(* completion of generateStory.  The awaits of rehydrateAudio settle in    *)
(* microtasks of the calling task, so a story load and its rehydrate are   *)
(* one step.                                                               *)
(* The vocabulary word audio (handlePlayWordAudio) is outside the          *)
(* controller and is not modelled; of the selected language and the story  *)
(* options, which the playback never reads, only the handlers are kept.    *)
(***************************************************************************)
EXTENDS Integers, Sequences, FiniteSets, TLC

\* ------------------------------------------------------------------ bounds
MaxPending == 2   \* playCurrentSegment runs suspended on resume() at once
MaxGen == 1       \* generateStory calls in flight at once
MaxSources == MaxPending + 1   \* source nodes that matter at once
MaxPayloads == 3  \* payloads of the list given to the rehydrate under study
MaxSegments == 3  \* segments of the story that generateStory synthesizes
MaxUrls == 3      \* stream URLs of the language of the radio player

\* null of currentSegmentIndex; sourceNodeRef and story use 0 for null
NULL == 0 - 1

\* playback rates the speed slider is moved between, in hundredths
PlaybackRates == {100, 150}
InitialRate == 100

\* The stories that generateStory returns or the history holds, each as the
\* list of its audio payloads: "ok" decodes, "empty" is the empty string,
\* "bad" is invalid base64 (atob throws), "odd" has an odd number of bytes
\* (the Int16Array constructor throws).
PayloadKinds == {"ok", "empty", "bad", "odd"}
Stories ==
  << <<"ok", "ok">>,
     <<"ok", "ok", "empty", "ok">>,
     <<"bad">> >>
StoryIds == 1..Len(Stories)
\* generateStory keeps only the segments with a non-empty payload
GeneratedStories == {s \in StoryIds : \A i \in 1..Len(Stories[s]) : Stories[s][i] # "empty"}

VARIABLES
  status, currentSegmentIndex, isContinuous,   \* audioState
  playbackRate,
  story, isLoading, error,
  audioContext,      \* "none", "suspended" or "running"
  audioBuffers,      \* audioBuffersRef.current: sequence of <<story, segment>>
  sourceNodeRef,     \* id of the registered source, 0 for null
  sources,           \* the source nodes that are live or registered
  pendingRuns,       \* playCurrentSegment runs suspended on resume()
  effectDeps,        \* dependencies of the last run of the playback effect
  genPending,        \* generateStory calls in flight
  walkStart, walkLog, \* history: start index of the last continuous play
                     \* command and the indices of the sources started since
  payloads,          \* rehydrate under study: the audioData it was given,
  decoded,           \* the result array of its Promise.all,
  rehydrateState,    \* and "none", "decoding", "stored" or "failed"
  ttsOutcomes,       \* generateStory under study: what the speech API
                     \* answers for each segment,
  ttsAudio,          \* the result array of its Promise.all,
  generated,         \* and its outcome: state, segments and audio
  radio              \* the RadioPlayer component and its audio element

vars == <<status, currentSegmentIndex, isContinuous, playbackRate, story,
          isLoading, error, audioContext, audioBuffers, sourceNodeRef,
          sources, pendingRuns, effectDeps, genPending, walkStart, walkLog,
          payloads, decoded, rehydrateState, ttsOutcomes, ttsAudio, generated,
          radio>>

AppVars == <<status, currentSegmentIndex, isContinuous, playbackRate, story,
             isLoading, error, audioContext, audioBuffers, sourceNodeRef,
             sources, pendingRuns, effectDeps, genPending, walkStart, walkLog>>
rehydrateVars == <<payloads, decoded, rehydrateState>>
generateVars == <<ttsOutcomes, ttsAudio, generated>>

SourceIds == 1..MaxSources
NoBuffer == <<0, 0>>
FreeSource ==
  [state |-> "free", buffer |-> NoBuffer, rate |-> 0, onended |-> FALSE, index |-> NULL]

\* ------------------------------------------------------------ audioReducer
initialAudioState ==
  [status |-> "idle", currentSegmentIndex |-> NULL, isContinuous |-> FALSE]

PLAY(startIndex, continuous) ==
  [type |-> "PLAY", startIndex |-> startIndex, isContinuous |-> continuous,
   audioBuffersCount |-> 0]
PAUSE == [type |-> "PAUSE", startIndex |-> 0, isContinuous |-> FALSE, audioBuffersCount |-> 0]
STOP == [type |-> "STOP", startIndex |-> 0, isContinuous |-> FALSE, audioBuffersCount |-> 0]
SEGMENT_ENDED(count) ==
  [type |-> "SEGMENT_ENDED", startIndex |-> 0, isContinuous |-> FALSE,
   audioBuffersCount |-> count]

\* audioReducer whose SEGMENT_ENDED advances without reading isContinuous
audioReducer_AlwaysAdvance(state, action) ==
  CASE action.type = "PLAY" ->
         [state EXCEPT !.status = "playing",
                       !.currentSegmentIndex = action.startIndex,
                       !.isContinuous = action.isContinuous]
    [] action.type = "PAUSE" ->
         IF state.status = "playing" THEN [state EXCEPT !.status = "paused"] ELSE state
    [] action.type = "STOP" -> initialAudioState
    [] action.type = "SEGMENT_ENDED" ->
         IF /\ state.currentSegmentIndex # NULL
            /\ state.currentSegmentIndex < action.audioBuffersCount - 1
         THEN [state EXCEPT !.currentSegmentIndex = state.currentSegmentIndex + 1]
         ELSE initialAudioState
    [] OTHER -> state

\* audioReducer whose STOP only sets the status
audioReducer_StopKeepsIndex(state, action) ==
  CASE action.type = "PLAY" ->
         [state EXCEPT !.status = "playing",
                       !.currentSegmentIndex = action.startIndex,
                       !.isContinuous = action.isContinuous]
    [] action.type = "PAUSE" ->
         IF state.status = "playing" THEN [state EXCEPT !.status = "paused"] ELSE state
    [] action.type = "STOP" -> [state EXCEPT !.status = "idle"]
    [] action.type = "SEGMENT_ENDED" ->
         IF /\ state.isContinuous
            /\ state.currentSegmentIndex # NULL
            /\ state.currentSegmentIndex < action.audioBuffersCount - 1
         THEN [state EXCEPT !.currentSegmentIndex = state.currentSegmentIndex + 1]
         ELSE initialAudioState
    [] OTHER -> state

\* audioReducer whose PAUSE does not read the status
audioReducer_PauseAlways(state, action) ==
  CASE action.type = "PLAY" ->
         [state EXCEPT !.status = "playing",
                       !.currentSegmentIndex = action.startIndex,
                       !.isContinuous = action.isContinuous]
    [] action.type = "PAUSE" -> [state EXCEPT !.status = "paused"]
    [] action.type = "STOP" -> initialAudioState
    [] action.type = "SEGMENT_ENDED" ->
         IF /\ state.isContinuous
            /\ state.currentSegmentIndex # NULL
            /\ state.currentSegmentIndex < action.audioBuffersCount - 1
         THEN [state EXCEPT !.currentSegmentIndex = state.currentSegmentIndex + 1]
         ELSE initialAudioState
    [] OTHER -> state

audioReducer(state, action) ==
  CASE action.type = "PLAY" ->
         [state EXCEPT !.status = "playing",
                       !.currentSegmentIndex = action.startIndex,
                       !.isContinuous = action.isContinuous]
    [] action.type = "PAUSE" ->
         IF state.status = "playing" THEN [state EXCEPT !.status = "paused"] ELSE state
    [] action.type = "STOP" -> initialAudioState
    [] action.type = "SEGMENT_ENDED" ->
         IF /\ state.isContinuous
            /\ state.currentSegmentIndex # NULL
            /\ state.currentSegmentIndex < action.audioBuffersCount - 1
         THEN [state EXCEPT !.currentSegmentIndex = state.currentSegmentIndex + 1]
         ELSE initialAudioState
    [] OTHER -> state

\* --------------------------------------------------- the machine as a value
\* The handlers below are functions of the whole machine m; queue holds the
\* actions dispatched and not yet rendered within the step.
Cur ==
  [status |-> status, currentSegmentIndex |-> currentSegmentIndex,
   isContinuous |-> isContinuous, playbackRate |-> playbackRate,
   story |-> story, isLoading |-> isLoading, error |-> error,
   audioContext |-> audioContext, audioBuffers |-> audioBuffers,
   sourceNodeRef |-> sourceNodeRef, sources |-> sources,
   pendingRuns |-> pendingRuns, effectDeps |-> effectDeps,
   genPending |-> genPending, walkStart |-> walkStart, walkLog |-> walkLog,
   queue |-> <<>>]

AudioStateOf(m) ==
  [status |-> m.status, currentSegmentIndex |-> m.currentSegmentIndex,
   isContinuous |-> m.isContinuous]

dispatch(m, action) == [m EXCEPT !.queue = Append(m.queue, action)]

RECURSIVE Reduce(_, _)
Reduce(state, actions) ==
  IF actions = <<>> THEN state
  ELSE Reduce(audioReducer(state, Head(actions)), Tail(actions))

\* useReducer: the render folds the dispatched actions into audioState
Render(m) ==
  LET s == Reduce(AudioStateOf(m), m.queue)
  IN [m EXCEPT !.status = s.status,
               !.currentSegmentIndex = s.currentSegmentIndex,
               !.isContinuous = s.isContinuous,
               !.queue = <<>>]

\* --------------------------------------------------------- source nodes
LiveSources(m) == {x \in SourceIds : m.sources[x].state = "live"}

\* source.onended = null; source.stop() on the registered source
SilenceRegistered(m) ==
  IF m.sourceNodeRef = 0 THEN m
  ELSE [m EXCEPT !.sources[m.sourceNodeRef].onended = FALSE,
                 !.sources[m.sourceNodeRef].state =
                    IF @ = "live" THEN "stopped" ELSE @]

\* createBufferSource ... source.start(0); sourceNodeRef.current = source
StartSource(m, index, buffer, rate) ==
  LET id == CHOOSE x \in SourceIds :
              /\ m.sources[x].state = "free"
              /\ \A y \in SourceIds : m.sources[y].state = "free" => x <= y
  IN [m EXCEPT !.sources[id] =
                  [state |-> "live", buffer |-> buffer, rate |-> rate,
                   onended |-> TRUE, index |-> index],
               !.sourceNodeRef = id,
               !.walkLog = IF m.walkStart # NULL THEN Append(m.walkLog, index) ELSE @]

\* A node that is neither sounding nor registered is unreachable garbage.
Collect(m) ==
  [m EXCEPT !.sources =
     [x \in SourceIds |->
        IF m.sources[x].state # "live" /\ m.sourceNodeRef # x
        THEN FreeSource ELSE m.sources[x]]]

\* ------------------------------------------------------ playback engine
Deps(m) == <<m.status, m.currentSegmentIndex, m.isContinuous, m.playbackRate>>

\* useEffect [playbackRate]
ApplyRate(m) ==
  IF m.sourceNodeRef # 0
  THEN [m EXCEPT !.sources[m.sourceNodeRef].rate = m.playbackRate]
  ELSE m

\* playCurrentSegment without the STOP for an index past the buffer store
playCurrentSegment_NoStop(m) ==
  IF m.status # "playing" \/ m.currentSegmentIndex = NULL THEN m
  ELSE LET index == m.currentSegmentIndex IN
    IF index >= Len(m.audioBuffers) THEN m
    ELSE LET m1 == SilenceRegistered(m)
             audioBuffer == m.audioBuffers[index + 1]
         IN IF m.audioContext = "none"
            THEN IF m.isContinuous
                 THEN dispatch(m1, SEGMENT_ENDED(Len(m.audioBuffers)))
                 ELSE dispatch(m1, STOP)
            ELSE IF m.audioContext = "suspended"
            THEN [m1 EXCEPT !.pendingRuns =
                    Append(@, [index |-> index, buffer |-> audioBuffer,
                               rate |-> m.playbackRate])]
            ELSE StartSource(m1, index, audioBuffer, m.playbackRate)

\* playCurrentSegment that reports an index past the buffer store as an error
playCurrentSegment_ErrorOnMissing(m) ==
  IF m.status # "playing" \/ m.currentSegmentIndex = NULL THEN m
  ELSE LET index == m.currentSegmentIndex IN
    IF index >= Len(m.audioBuffers)
    THEN dispatch([m EXCEPT !.error = "resume"], STOP)
    ELSE LET m1 == SilenceRegistered(m)
             audioBuffer == m.audioBuffers[index + 1]
         IN IF m.audioContext = "none"
            THEN IF m.isContinuous
                 THEN dispatch(m1, SEGMENT_ENDED(Len(m.audioBuffers)))
                 ELSE dispatch(m1, STOP)
            ELSE IF m.audioContext = "suspended"
            THEN [m1 EXCEPT !.pendingRuns =
                    Append(@, [index |-> index, buffer |-> audioBuffer,
                               rate |-> m.playbackRate])]
            ELSE StartSource(m1, index, audioBuffer, m.playbackRate)

\* playCurrentSegment that looks the buffer up by its transcript position
playCurrentSegment_Renumbered(m) ==
  IF m.status # "playing" \/ m.currentSegmentIndex = NULL THEN m
  ELSE LET index == m.currentSegmentIndex
           at == {j \in 1..Len(m.audioBuffers) : m.audioBuffers[j][2] = index}
       IN
    IF at = {} THEN dispatch(m, STOP)
    ELSE LET m1 == SilenceRegistered(m)
             audioBuffer == m.audioBuffers[CHOOSE j \in at : TRUE]
         IN IF m.audioContext = "none"
            THEN IF m.isContinuous
                 THEN dispatch(m1, SEGMENT_ENDED(Len(m.audioBuffers)))
                 ELSE dispatch(m1, STOP)
            ELSE IF m.audioContext = "suspended"
            THEN [m1 EXCEPT !.pendingRuns =
                    Append(@, [index |-> index, buffer |-> audioBuffer,
                               rate |-> m.playbackRate])]
            ELSE StartSource(m1, index, audioBuffer, m.playbackRate)

\* playCurrentSegment that does not read the status
playCurrentSegment_IgnoresStatus(m) ==
  IF m.currentSegmentIndex = NULL THEN m
  ELSE LET index == m.currentSegmentIndex IN
    IF index >= Len(m.audioBuffers) THEN dispatch(m, STOP)
    ELSE LET m1 == SilenceRegistered(m)
             audioBuffer == m.audioBuffers[index + 1]
         IN IF m.audioContext = "none"
            THEN IF m.isContinuous
                 THEN dispatch(m1, SEGMENT_ENDED(Len(m.audioBuffers)))
                 ELSE dispatch(m1, STOP)
            ELSE IF m.audioContext = "suspended"
            THEN [m1 EXCEPT !.pendingRuns =
                    Append(@, [index |-> index, buffer |-> audioBuffer,
                               rate |-> m.playbackRate])]
            ELSE StartSource(m1, index, audioBuffer, m.playbackRate)

\* playCurrentSegment up to its await
playCurrentSegment(m) ==
  IF m.status # "playing" \/ m.currentSegmentIndex = NULL THEN m
  ELSE LET index == m.currentSegmentIndex IN
    IF index >= Len(m.audioBuffers) THEN dispatch(m, STOP)
    ELSE LET m1 == SilenceRegistered(m)
             audioBuffer == m.audioBuffers[index + 1]
         IN IF m.audioContext = "none"
            THEN IF m.isContinuous
                 THEN dispatch(m1, SEGMENT_ENDED(Len(m.audioBuffers)))
                 ELSE dispatch(m1, STOP)
            ELSE IF m.audioContext = "suspended"
            THEN [m1 EXCEPT !.pendingRuns =
                    Append(@, [index |-> index, buffer |-> audioBuffer,
                               rate |-> m.playbackRate])]
            ELSE StartSource(m1, index, audioBuffer, m.playbackRate)

\* the cleanup of the playback effect
EffectCleanup(m) ==
  IF m.sourceNodeRef # 0
  THEN [m EXCEPT !.sources[m.sourceNodeRef].onended = FALSE]
  ELSE m

\* One pass of the effects of the last render: cleanups first, then the
\* effects whose dependencies changed, in the order of their declaration.
EffectBody(m) ==
  LET c == EffectCleanup(m)
      r == IF m.effectDeps[4] # m.playbackRate THEN ApplyRate(c) ELSE c
  IN [playCurrentSegment(r) EXCEPT !.effectDeps = Deps(m)]

EffectPending(m) == Deps(m) # m.effectDeps

\* the updates a handler dispatched are rendered
Commit(m) == Collect(Render(m))

Apply(m) ==
  /\ status' = m.status
  /\ currentSegmentIndex' = m.currentSegmentIndex
  /\ isContinuous' = m.isContinuous
  /\ playbackRate' = m.playbackRate
  /\ story' = m.story
  /\ isLoading' = m.isLoading
  /\ error' = m.error
  /\ audioContext' = m.audioContext
  /\ audioBuffers' = m.audioBuffers
  /\ sourceNodeRef' = m.sourceNodeRef
  /\ sources' = m.sources
  /\ pendingRuns' = m.pendingRuns
  /\ effectDeps' = m.effectDeps
  /\ genPending' = m.genPending
  /\ walkStart' = m.walkStart
  /\ walkLog' = m.walkLog
  /\ UNCHANGED <<rehydrateVars, generateVars, radio>>

\* ------------------------------------------------------------- decoding
\* the try block of decodeAudioData: "throws" or "buffer"
TryDecode(base64Data) ==
  IF base64Data = "bad" THEN "throws"         \* decodeBase64: atob
  ELSE IF base64Data = "odd" THEN "throws"    \* new Int16Array(data.buffer)
  ELSE "buffer"

\* decodeAudioData without its try and catch
decodeAudioData_NoCatch(base64Data) ==
  IF base64Data = "empty" THEN "null"
  ELSE TryDecode(base64Data)

\* decodeAudioData: "buffer" when a buffer comes back, "null" for null,
\* "throws" when the promise is rejected
decodeAudioData(base64Data) ==
  IF base64Data = "empty" THEN "null"
  ELSE IF TryDecode(base64Data) = "throws" THEN "null"
  ELSE "buffer"

RECURSIVE Compact(_, _, _)
Compact(s, audioData, i) ==
  IF i > Len(audioData) THEN <<>>
  ELSE IF decodeAudioData(audioData[i]) = "buffer"
       THEN <<(<<s, i - 1>>)>> \o Compact(s, audioData, i + 1)
       ELSE Compact(s, audioData, i + 1)

\* rehydrateAudio for the payloads of story s; a context made here starts in
\* the state ctxState, as the autoplay policy of the browser decides
rehydrateAudio(m, s, ctxState) ==
  [m EXCEPT !.audioContext = IF @ = "none" THEN ctxState ELSE @,
            !.audioBuffers = Compact(s, Stories[s], 1)]

\* ------------------------------------------------------------- handlers
\* stopAudio that only dispatches STOP
stopAudio_DispatchOnly(m) == dispatch(m, STOP)

\* stopAudio that returns after silencing a registered source
stopAudio_EarlyReturn(m) ==
  IF m.sourceNodeRef # 0
  THEN [SilenceRegistered(m) EXCEPT !.sourceNodeRef = 0]
  ELSE dispatch(m, STOP)

stopAudio(m) ==
  LET m1 == IF m.sourceNodeRef # 0
            THEN [SilenceRegistered(m) EXCEPT !.sourceNodeRef = 0]
            ELSE m
  IN dispatch(m1, STOP)

\* handlePlayPauseToggle that always starts at the first segment
handlePlayPauseToggle_FromStart(m) ==
  IF m.status = "playing"
  THEN LET m1 == IF m.sourceNodeRef # 0
                 THEN [SilenceRegistered(m) EXCEPT !.sourceNodeRef = 0]
                 ELSE m
       IN dispatch(m1, PAUSE)
  ELSE dispatch(m, PLAY(0, TRUE))

handlePlayPauseToggle(m) ==
  IF m.status = "playing"
  THEN LET m1 == IF m.sourceNodeRef # 0
                 THEN [SilenceRegistered(m) EXCEPT !.sourceNodeRef = 0]
                 ELSE m
       IN dispatch(m1, PAUSE)
  ELSE LET startIndex == IF m.currentSegmentIndex # NULL
                         THEN m.currentSegmentIndex ELSE 0
       IN dispatch(m, PLAY(startIndex, TRUE))

\* handleSegmentClick that starts the clicked segment whatever is playing
handleSegmentClick_AlwaysPlay(m, index) == dispatch(m, PLAY(index, FALSE))

\* handleSegmentClick that pauses whenever something is playing
handleSegmentClick_PauseAny(m, index) ==
  IF m.status = "playing"
  THEN handlePlayPauseToggle(m)
  ELSE dispatch(m, PLAY(index, FALSE))

handleSegmentClick(m, index) ==
  IF m.status = "playing" /\ m.currentSegmentIndex = index
  THEN handlePlayPauseToggle(m)
  ELSE dispatch(m, PLAY(index, FALSE))

\* handleGenerateStory up to the await of generateStory
handleGenerateStory(m) ==
  [stopAudio([m EXCEPT !.isLoading = TRUE, !.error = "none"])
     EXCEPT !.story = 0, !.genPending = @ + 1]

\* handleGenerateStory after generateStory and saveStoryToCache resolved
generateStoryResolved(m, newStory, ctxState) ==
  [rehydrateAudio([m EXCEPT !.story = newStory], newStory, ctxState)
     EXCEPT !.isLoading = FALSE, !.genPending = @ - 1]

\* handleGenerateStory after generateStory or saveStoryToCache rejected
generateStoryRejected(m) ==
  [m EXCEPT !.error = "generate", !.story = 0, !.isLoading = FALSE,
            !.genPending = @ - 1]

handleOptionsChange(m) == [stopAudio(m) EXCEPT !.story = 0]

\* onChange of the LanguageSelector
handleLanguageChange(m) == [stopAudio(m) EXCEPT !.story = 0]

handleLoadStoryFromHistory(m, item, ctxState) ==
  LET m1 == [stopAudio(m) EXCEPT !.error = "none", !.story = item]
  IN [rehydrateAudio(m1, item, ctxState) EXCEPT !.isLoading = FALSE]

\* onPlaybackRateChange of the AudioPlayer
setPlaybackRate(m, rate) == [m EXCEPT !.playbackRate = rate]

\* source.onended without the comparison with the registered source
onended_NoIdentityCheck(m, x) ==
  LET m1 == [m EXCEPT !.sources[x].state = "ended"]
  IN IF m.sources[x].onended
     THEN dispatch(m1, SEGMENT_ENDED(Len(m.audioBuffers)))
     ELSE m1

\* source.onended of source x, fired by its natural completion
onended(m, x) ==
  LET m1 == [m EXCEPT !.sources[x].state = "ended"]
  IN IF m.sources[x].onended /\ m.sourceNodeRef = x
     THEN dispatch(m1, SEGMENT_ENDED(Len(m.audioBuffers)))
     ELSE m1

\* playCurrentSegment after its await of resume() resolved
RECURSIVE resumeResolved(_, _)
resumeResolved(m, runs) ==
  IF runs = <<>> THEN m
  ELSE resumeResolved(
         StartSource(m, Head(runs).index, Head(runs).buffer, Head(runs).rate),
         Tail(runs))

\* the catch of the await of resume() without its dispatch of STOP
resumeCatch_NoStop(m) == [m EXCEPT !.error = "resume"]

\* the catch of the await of resume(): setError, dispatch STOP, return
resumeCatch(m) == dispatch([m EXCEPT !.error = "resume"], STOP)

\* playCurrentSegment after its await of resume() rejected
RECURSIVE resumeRejected(_, _)
resumeRejected(m, runs) ==
  IF runs = <<>> THEN m
  ELSE resumeRejected(resumeCatch(m), Tail(runs))

\* history of the walk that the claims about continuous playback speak of
Walk(m, k) == [m EXCEPT !.walkStart = k, !.walkLog = <<>>]

\* --------------------------------------------------------------- actions
InitialApp ==
  /\ status = "idle"
  /\ currentSegmentIndex = NULL
  /\ isContinuous = FALSE
  /\ playbackRate = InitialRate
  /\ story = 0
  /\ isLoading = FALSE
  /\ error = "none"
  /\ audioContext = "none"
  /\ audioBuffers = <<>>
  /\ sourceNodeRef = 0
  /\ sources = [x \in SourceIds |-> FreeSource]
  /\ pendingRuns = <<>>
  /\ effectDeps = <<"idle", NULL, FALSE, InitialRate>>
  /\ genPending = 0
  /\ walkStart = NULL
  /\ walkLog = <<>>

NoRehydrate ==
  /\ payloads = <<>>
  /\ decoded = <<>>
  /\ rehydrateState = "none"

NotGenerated == [state |-> "none", segments |-> <<>>, audio |-> <<>>]
NoGenerate ==
  /\ ttsOutcomes = <<>>
  /\ ttsAudio = <<>>
  /\ generated = NotGenerated

\* RadioPlayer as mounted for a language with urls stream URLs: the state
\* of the component, its audio element (element, src) and, as history, the
\* URLs the element was given for the last play request and whether that
\* request is still open (it is closed by the playing event, by the failure
\* of every URL and by a refused play())
InitialRadio(urls) ==
  [urls |-> urls, isPlaying |-> FALSE, isLoading |-> FALSE, error |-> "none",
   currentStreamIndex |-> 0, element |-> "empty", src |-> NULL,
   tried |-> <<>>, open |-> FALSE]

Init ==
  /\ InitialApp
  /\ NoRehydrate
  /\ NoGenerate
  /\ radio = InitialRadio(0)

\* events are handled after the effects of the last render; the start of a
\* playback is bounded by the number of runs that can wait on resume()
Ready == ~EffectPending(Cur)
CanStart == Len(pendingRuns) < MaxPending

Toggle ==
  /\ Ready
  /\ story # 0 /\ ~isLoading
  /\ status # "playing" => CanStart
  /\ Apply(Commit(handlePlayPauseToggle(
       Walk(Cur, IF status = "playing" THEN NULL
                 ELSE IF currentSegmentIndex # NULL THEN currentSegmentIndex ELSE 0))))

\* a click on the sentence of transcript index index
SegmentClickAt(index) ==
  /\ Ready
  /\ story # 0
  /\ CanStart
  /\ index \in 0..(Len(Stories[story]) - 1)
  /\ Apply(Commit(handleSegmentClick(Walk(Cur, NULL), index)))

SegmentClick ==
  /\ story # 0
  /\ \E index \in 0..(Len(Stories[story]) - 1) : SegmentClickAt(index)

SetRate ==
  /\ Ready
  /\ story # 0 /\ ~isLoading
  /\ CanStart
  /\ \E rate \in PlaybackRates \ {playbackRate} :
       Apply(Commit(setPlaybackRate(Walk(Cur, NULL), rate)))

Generate ==
  /\ Ready
  /\ ~isLoading
  /\ genPending < MaxGen
  /\ Apply(Commit(handleGenerateStory(Walk(Cur, NULL))))

GenerateResolved ==
  /\ Ready
  /\ genPending > 0
  /\ \E newStory \in GeneratedStories, ctxState \in {"suspended", "running"} :
       Apply(Commit(generateStoryResolved(Walk(Cur, NULL), newStory, ctxState)))

GenerateRejected ==
  /\ Ready
  /\ genPending > 0
  /\ Apply(Commit(generateStoryRejected(Walk(Cur, NULL))))

OptionsChange ==
  /\ Ready
  /\ ~isLoading
  /\ Apply(Commit(handleOptionsChange(Walk(Cur, NULL))))

LanguageChange ==
  /\ Ready
  /\ ~isLoading
  /\ Apply(Commit(handleLanguageChange(Walk(Cur, NULL))))

LoadStoryFromHistory ==
  /\ Ready
  /\ \E item \in StoryIds, ctxState \in {"suspended", "running"} :
       Apply(Commit(handleLoadStoryFromHistory(Walk(Cur, NULL), item, ctxState)))

SourceEnded(x) ==
  /\ Ready
  /\ sources[x].state = "live"
  /\ Apply(Commit(onended(Cur, x)))

ResumeResolved ==
  /\ Ready
  /\ audioContext = "suspended"
  /\ pendingRuns # <<>>
  /\ Apply(Commit(resumeResolved(
       [Cur EXCEPT !.audioContext = "running", !.pendingRuns = <<>>], pendingRuns)))

ResumeRejected ==
  /\ Ready
  /\ audioContext = "suspended"
  /\ pendingRuns # <<>>
  /\ Apply(Commit(resumeRejected(
       [Walk(Cur, NULL) EXCEPT !.pendingRuns = <<>>], pendingRuns)))

\* the effects of the last render run, and what they dispatch is rendered
RunEffect ==
  /\ EffectPending(Cur)
  /\ Apply(Commit(EffectBody(Cur)))

Next ==
  \/ Toggle
  \/ SegmentClick
  \/ SetRate
  \/ Generate
  \/ GenerateResolved
  \/ GenerateRejected
  \/ OptionsChange
  \/ LanguageChange
  \/ LoadStoryFromHistory
  \/ \E x \in SourceIds : SourceEnded(x)
  \/ ResumeResolved
  \/ ResumeRejected
  \/ RunEffect

Spec == Init /\ [][Next]_vars

\* ------------------------------------------- rehydrateAudio, step by step
\* One call of rehydrateAudio on an arbitrary list of payloads, with the
\* promises of its Promise.all settling one by one in any order.
PayloadLists == UNION {[1..n -> PayloadKinds] : n \in 0..MaxPayloads}
Pending == [kind |-> "pending", pos |-> NULL]

\* the value that the promise for payload i settles with
Settled(audioData, i) ==
  LET r == IF audioData[i] = "empty" THEN "null" ELSE decodeAudioData(audioData[i])
  IN [kind |-> r, pos |-> IF r = "buffer" THEN i - 1 ELSE NULL]

\* buffers.filter(b => b !== null) left out
StoreBuffers_NoFilter(buffers) ==
  [j \in 1..Len(buffers) |-> <<0, buffers[j].pos>>]

\* buffers.filter(b => b !== null)
StoreBuffers(buffers) ==
  LET kept == SelectSeq(buffers, LAMBDA b : b.kind # "null")
  IN [j \in 1..Len(kept) |-> <<0, kept[j].pos>>]

AppUnchanged ==
  UNCHANGED <<status, currentSegmentIndex, isContinuous, playbackRate, story,
              isLoading, error, sourceNodeRef, sources, pendingRuns,
              effectDeps, genPending, walkStart, walkLog, generateVars, radio>>

RehydrateInit ==
  /\ InitialApp
  /\ NoGenerate
  /\ radio = InitialRadio(0)
  /\ payloads \in PayloadLists
  /\ decoded = <<>>
  /\ rehydrateState = "none"

\* the context is created and map() has called the decoder on every payload
RehydrateBegin ==
  /\ rehydrateState = "none"
  /\ \E ctxState \in {"suspended", "running"} : audioContext' = ctxState
  /\ decoded' = [i \in 1..Len(payloads) |-> Pending]
  /\ rehydrateState' = "decoding"
  /\ UNCHANGED <<payloads, audioBuffers>>
  /\ AppUnchanged

\* the promise of one payload settles; a rejection rejects the Promise.all
DecodeSettles(i) ==
  /\ rehydrateState = "decoding"
  /\ decoded[i].kind = "pending"
  /\ decoded' = [decoded EXCEPT ![i] = Settled(payloads, i)]
  /\ rehydrateState' =
       IF Settled(payloads, i).kind = "throws" THEN "failed" ELSE "decoding"
  /\ UNCHANGED <<payloads, audioBuffers, audioContext>>
  /\ AppUnchanged

\* all promises are fulfilled: the await returns and the store is assigned
RehydrateStore ==
  /\ rehydrateState = "decoding"
  /\ \A i \in 1..Len(payloads) : decoded[i].kind # "pending"
  /\ audioBuffers' = StoreBuffers(decoded)
  /\ rehydrateState' = "stored"
  /\ UNCHANGED <<payloads, decoded, audioContext>>
  /\ AppUnchanged

RehydrateNext ==
  \/ RehydrateBegin
  \/ \E i \in 1..Len(payloads) : DecodeSettles(i)
  \/ RehydrateStore

RehydrateSpec == RehydrateInit /\ [][RehydrateNext]_vars

\* ---------------------------------------------- generateStory, step by step
\* One call of generateStory after the model has answered with the list of
\* segments: segment i is named by its index i, and the speech API answers
\* "audio", "none" (no audio in the response) or "error" for each.
TtsOutcomes == {"audio", "none", "error"}
TtsOutcomeLists == UNION {[1..n -> TtsOutcomes] : n \in 0..MaxSegments}
EmptyAudio == <<"", NULL>>
PendingAudio == <<"pending", NULL>>

\* textToSpeech without throwOnError, for segment i: the payload or ""
textToSpeech(outcome, i) ==
  IF outcome = "audio" THEN <<"audio", i>> ELSE EmptyAudio

\* the indices that the forEach of generateStory keeps, with no test of the
\* audio
ValidIndices_All(audio) == [j \in 1..Len(audio) |-> j]

\* the indices that the forEach of generateStory keeps: if (audioData)
ValidIndices(audio) ==
  SelectSeq([j \in 1..Len(audio) |-> j], LAMBDA j : audio[j] # EmptyAudio)

\* generateStory from the parsed segments on
generateStory(audio) ==
  LET kept == ValidIndices(audio)
  IN IF Len(audio) = 0 THEN [state |-> "failed", segments |-> <<>>, audio |-> <<>>]
     ELSE IF Len(kept) = 0 THEN [state |-> "failed", segments |-> <<>>, audio |-> <<>>]
     ELSE [state |-> "returned",
           segments |-> [j \in 1..Len(kept) |-> kept[j] - 1],
           audio |-> [j \in 1..Len(kept) |-> audio[kept[j]]]]

OthersUnchanged == UNCHANGED <<AppVars, rehydrateVars, radio>>

GenerateStoryInit ==
  /\ InitialApp
  /\ NoRehydrate
  /\ radio = InitialRadio(0)
  /\ ttsOutcomes \in TtsOutcomeLists
  /\ ttsAudio = <<>>
  /\ generated = NotGenerated

\* segments.map has called textToSpeech on every segment
TextToSpeechBegin ==
  /\ generated.state = "none"
  /\ ttsAudio' = [i \in 1..Len(ttsOutcomes) |-> PendingAudio]
  /\ generated' = [generated EXCEPT !.state = "pending"]
  /\ UNCHANGED ttsOutcomes
  /\ OthersUnchanged

\* the promise of one segment's audio is fulfilled
TextToSpeechSettles(i) ==
  /\ generated.state = "pending"
  /\ ttsAudio[i] = PendingAudio
  /\ ttsAudio' = [ttsAudio EXCEPT ![i] = textToSpeech(ttsOutcomes[i], i - 1)]
  /\ UNCHANGED <<ttsOutcomes, generated>>
  /\ OthersUnchanged

\* the Promise.all is fulfilled: the story is returned or the call throws
GenerateStoryEnds ==
  /\ generated.state = "pending"
  /\ \A i \in 1..Len(ttsOutcomes) : ttsAudio[i] # PendingAudio
  /\ generated' = generateStory(ttsAudio)
  /\ UNCHANGED <<ttsOutcomes, ttsAudio>>
  /\ OthersUnchanged

GenerateStoryNext ==
  \/ TextToSpeechBegin
  \/ \E i \in 1..Len(ttsOutcomes) : TextToSpeechSettles(i)
  \/ GenerateStoryEnds

GenerateStorySpec == GenerateStoryInit /\ [][GenerateStoryNext]_vars

\* ------------------------------------------------------------ RadioPlayer
\* The component for one language.  A handler, the render of its updates and
\* the effects of that render are one step.  The audio element is "empty",
\* "loading" (src set and play() called), "blocked" (play() was refused),
\* "playing", "stalled" (waiting for data after it played), "pausing" (its
\* pause event is queued), "paused" or "failed" (its error event was fired).

\* the playback effect that does not stop after the last URL
PlaybackEffect_Wraps(r) ==
  IF ~r.isLoading \/ r.isPlaying \/ r.urls = 0 THEN r
  ELSE [r EXCEPT !.src = r.currentStreamIndex % r.urls, !.element = "loading",
                 !.tried = IF r.open THEN Append(@, r.currentStreamIndex % r.urls)
                           ELSE @]

\* the playback effect, run for the rendered state r, and the effects of the
\* render of what it sets
PlaybackEffect(r) ==
  IF ~r.isLoading \/ r.isPlaying \/ r.urls = 0 THEN r
  ELSE IF r.currentStreamIndex >= r.urls
  THEN [r EXCEPT !.error = "allFailed", !.isLoading = FALSE, !.isPlaying = FALSE,
                 !.open = FALSE]
  ELSE [r EXCEPT !.src = r.currentStreamIndex, !.element = "loading",
                 !.tried = IF r.open THEN Append(@, r.currentStreamIndex) ELSE @]

RadioDeps(r) == <<r.isLoading, r.isPlaying, r.currentStreamIndex>>

\* the state after a handler took r0 to r: the effect runs if a dependency
\* changed
RadioCommit(r0, r) ==
  IF RadioDeps(r) # RadioDeps(r0) THEN PlaybackEffect(r) ELSE r

handlePlayPause(r) ==
  IF r.urls = 0 THEN r
  ELSE IF r.isPlaying
  THEN \* audioRef.current.pause()
       IF r.element \in {"playing", "stalled", "failed"}
       THEN [r EXCEPT !.element = "pausing"] ELSE r
  ELSE [r EXCEPT !.error = "none", !.currentStreamIndex = 0, !.isLoading = TRUE,
                 \* no dependency of the effect changes when URL 0 is
                 \* already loading: that load is the request's first try
                 !.tried = IF r.isLoading /\ r.currentStreamIndex = 0
                              /\ r.element = "loading" /\ r.src = 0
                           THEN <<0>> ELSE <<>>,
                 !.open = TRUE]

handlePlaying(r) ==
  [r EXCEPT !.isLoading = FALSE, !.isPlaying = TRUE, !.error = "none",
            !.element = "playing", !.open = FALSE]

handlePause(r) == [r EXCEPT !.isPlaying = FALSE, !.element = "paused"]

handleError(r) ==
  IF r.isLoading
  THEN [r EXCEPT !.element = "failed", !.currentStreamIndex = @ + 1]
  ELSE [r EXCEPT !.element = "failed"]

handleWaiting(r) ==
  IF r.isPlaying
  THEN [r EXCEPT !.element = "stalled", !.isLoading = TRUE]
  ELSE [r EXCEPT !.element = "stalled"]

\* the catch of audio.play() for a NotAllowedError
handlePlayBlocked(r) ==
  [r EXCEPT !.error = "blocked", !.isLoading = FALSE, !.element = "blocked",
            !.open = FALSE]

RadioOthersUnchanged == UNCHANGED <<AppVars, rehydrateVars, generateVars>>

RadioInit ==
  /\ InitialApp
  /\ NoRehydrate
  /\ NoGenerate
  /\ \E urls \in 1..MaxUrls : radio = InitialRadio(urls)

RadioPlayPause ==
  /\ radio' = RadioCommit(radio, handlePlayPause(radio))
  /\ RadioOthersUnchanged

RadioPlaying ==
  /\ radio.element \in {"loading", "stalled"}
  /\ radio' = RadioCommit(radio, handlePlaying(radio))
  /\ RadioOthersUnchanged

RadioPause ==
  /\ radio.element = "pausing"
  /\ radio' = RadioCommit(radio, handlePause(radio))
  /\ RadioOthersUnchanged

RadioError ==
  /\ radio.element \in {"loading", "blocked", "playing", "stalled"}
  /\ radio' = RadioCommit(radio, handleError(radio))
  /\ RadioOthersUnchanged

RadioWaiting ==
  /\ radio.element = "playing"
  /\ radio' = RadioCommit(radio, handleWaiting(radio))
  /\ RadioOthersUnchanged

RadioPlayBlocked ==
  /\ radio.element = "loading"
  /\ radio.isLoading
  /\ radio' = RadioCommit(radio, handlePlayBlocked(radio))
  /\ RadioOthersUnchanged

RadioNext ==
  \/ RadioPlayPause
  \/ RadioPlaying
  \/ RadioPause
  \/ RadioError
  \/ RadioWaiting
  \/ RadioPlayBlocked

RadioSpec == RadioInit /\ [][RadioNext]_vars

\* ---------------------------------------------------------------- claims
audioState == <<status, currentSegmentIndex, isContinuous>>
Live == LiveSources(Cur)
RegisteredLive ==
  /\ sourceNodeRef # 0
  /\ sources[sourceNodeRef].state = "live"
  /\ sources[sourceNodeRef].onended
UserCommand ==
  \/ Toggle \/ SegmentClick \/ SetRate \/ Generate
  \/ OptionsChange \/ LanguageChange \/ LoadStoryFromHistory
IsPrefix(s, t) == Len(s) <= Len(t) /\ \A i \in 1..Len(s) : s[i] = t[i]

\* C1: in every reachable state at most one audio source is live (started
\* and neither stopped nor ended), also when two playCurrentSegment runs
\* both wait on resume().
C1_AtMostOneLiveSource == Cardinality(Live) <= 1

\* C2: when the engine reacts to a change of the playback rate alone while
\* status is playing and the registered source is live, that same source
\* stays registered and live, it gets the new rate, and status and
\* currentSegmentIndex are unchanged.
C2_RateChangeKeepsSource ==
  [][ ( /\ RunEffect
        /\ status = "playing"
        /\ RegisteredLive
        /\ effectDeps = <<status, currentSegmentIndex, isContinuous, effectDeps[4]>>
        /\ effectDeps[4] # playbackRate )
      => ( /\ sourceNodeRef' = sourceNodeRef
           /\ sources'[sourceNodeRef].state = "live"
           /\ sources'[sourceNodeRef].rate = playbackRate
           /\ audioState' = audioState ) ]_vars

\* C3: paused at index 0 after a continuous play that was paused before its
\* first completion, the state stays paused at index 0 through every step
\* that is not a user command (here also: not a failure of the device
\* resume), whether or not the resume awaited by the start was pending at
\* the pause.
C3_PausedStaysPaused ==
  [][ ( /\ status = "paused" /\ currentSegmentIndex = 0 /\ isContinuous
        /\ ~UserCommand
        /\ ~ResumeRejected )
      => ( status' = "paused" /\ currentSegmentIndex' = 0 /\ isContinuous' ) ]_vars

C5_DiscardOnlyWhenStopped ==
  [][ ( \/ Generate \/ GenerateResolved \/ GenerateRejected
        \/ OptionsChange \/ LanguageChange \/ LoadStoryFromHistory )
      => ( /\ status' = "idle"
           /\ currentSegmentIndex' = NULL
           /\ \A y \in SourceIds : sources'[y].state # "live" ) ]_vars

\* C6: after a continuous play started at k < N with no user command, rate
\* change, store replacement or resume failure since, the sources started
\* are for k, k+1, ... in order, one per index, currentSegmentIndex is the
\* index of the last started or of the next one, and idle is reached with
\* exactly k..N-1 played.
C6_ContinuousWalk ==
  (walkStart # NULL /\ walkStart < Len(audioBuffers)) =>
    LET k == walkStart
        N == Len(audioBuffers)
        expected == [i \in 1..(N - k) |-> k + i - 1]
    IN /\ IsPrefix(walkLog, expected)
       /\ status # "paused"
       /\ status = "idle" => walkLog = expected
       /\ status = "playing" =>
            currentSegmentIndex \in {k + Len(walkLog) - 1, k + Len(walkLog)}

\* C7: in single-segment play, the natural completion of the registered
\* source of the current segment moves the state to idle with
\* currentSegmentIndex null, and starts no source.
C7_SingleSegmentEndsIdle ==
  [][ \A x \in SourceIds :
        ( /\ SourceEnded(x)
          /\ sourceNodeRef = x /\ sources[x].onended
          /\ status = "playing" /\ ~isContinuous
          /\ sources[x].index = currentSegmentIndex )
        => ( /\ status' = "idle" /\ currentSegmentIndex' = NULL /\ ~isContinuous'
             /\ \A y \in SourceIds :
                  sources'[y].state = "live" => sources[y] = sources'[y] ) ]_vars

\* C7 witness: the source of a single-segment play at index 1 has completed
\* and the state is idle.
C7_Witness ==
  /\ status = "idle" /\ currentSegmentIndex = NULL
  /\ effectDeps[1] = "playing" /\ effectDeps[2] = 1 /\ effectDeps[3] = FALSE
  /\ sourceNodeRef # 0
  /\ sources[sourceNodeRef].state = "ended"
  /\ sources[sourceNodeRef].index = 1

\* C8: in every reachable state with status playing, the registered source
\* is live for the current segment with its completion callback set, or a
\* playCurrentSegment run for the current segment waits on resume(), or the
\* effects of the last render are still to run.
C8_PlayingHasSource ==
  status = "playing" =>
    \/ EffectPending(Cur)
    \/ /\ pendingRuns # <<>>
       /\ pendingRuns[Len(pendingRuns)].index = currentSegmentIndex
    \/ /\ RegisteredLive
       /\ sources[sourceNodeRef].index = currentSegmentIndex

\* C8 witness: playing, after a rate change was applied, on a live
\* registered source with nothing pending.
C8_Witness ==
  /\ status = "playing"
  /\ ~EffectPending(Cur) /\ pendingRuns = <<>>
  /\ playbackRate # InitialRate
  /\ RegisteredLive
  /\ sources[sourceNodeRef].rate = playbackRate

\* C9: in every reachable state currentSegmentIndex is null or a valid index
\* of the buffer store.
C9_IndexInStore ==
  \/ currentSegmentIndex = NULL
  \/ (0 <= currentSegmentIndex /\ currentSegmentIndex < Len(audioBuffers))

\* C10: toggle in status idle or paused yields playing, continuous, at the
\* previous currentSegmentIndex or at 0 when it was null; toggle in status
\* playing yields paused.
C10_Toggle ==
  [][ Toggle =>
        /\ status \in {"idle", "paused"} =>
             /\ status' = "playing"
             /\ isContinuous'
             /\ currentSegmentIndex' =
                  IF currentSegmentIndex # NULL THEN currentSegmentIndex ELSE 0
        /\ status = "playing" =>
             /\ status' = "paused"
             /\ currentSegmentIndex' = currentSegmentIndex ]_vars

\* C10 witness: toggle has resumed a single-segment play paused at index 1:
\* playing, continuous, at index 1, the effects of the paused render being
\* the last that ran.
C10_Witness ==
  /\ status = "playing" /\ isContinuous /\ currentSegmentIndex = 1
  /\ effectDeps[1] = "paused" /\ effectDeps[2] = 1 /\ effectDeps[3] = FALSE

SegmentIndices == UNION {0..(Len(Stories[s]) - 1) : s \in StoryIds}

\* C11: a click on segment i while status is playing and currentSegmentIndex
\* is i yields paused at index i with isContinuous unchanged; the registered
\* source is stopped, deregistered and its completion callback is removed.
C11_ClickCurrentPauses ==
  [][ \A i \in SegmentIndices :
        (SegmentClickAt(i) /\ status = "playing" /\ currentSegmentIndex = i)
        => ( /\ status' = "paused"
             /\ currentSegmentIndex' = i
             /\ isContinuous' = isContinuous
             /\ sourceNodeRef' = 0
             /\ sourceNodeRef # 0 =>
                  /\ sources'[sourceNodeRef].state # "live"
                  /\ ~sources'[sourceNodeRef].onended ) ]_vars

\* C11 witness: a single-segment play of index 1 whose source was sounding
\* has been paused at index 1; no source is registered and none is live.
C11_Witness ==
  /\ status = "paused" /\ currentSegmentIndex = 1 /\ ~isContinuous
  /\ effectDeps[1] = "playing" /\ effectDeps[2] = 1
  /\ sourceNodeRef = 0
  /\ pendingRuns = <<>>
  /\ Live = {}

\* C12: a click on segment i in any state other than playing at index i
\* yields playing at index i with isContinuous false, whatever the state was.
C12_ClickOtherPlaysSingle ==
  [][ \A i \in SegmentIndices :
        (SegmentClickAt(i) /\ ~(status = "playing" /\ currentSegmentIndex = i))
        => ( /\ status' = "playing"
             /\ currentSegmentIndex' = i
             /\ ~isContinuous' ) ]_vars

\* C12 witness: a click on segment 1 during a continuous play of segment 0:
\* playing index 1, not continuous, the last effects having run for the
\* continuous play of index 0.
C12_Witness ==
  /\ status = "playing" /\ currentSegmentIndex = 1 /\ ~isContinuous
  /\ effectDeps[1] = "playing" /\ effectDeps[2] = 0 /\ effectDeps[3] = TRUE

\* the machine after stopAudio and its render, once and twice
StopOnce == Commit(stopAudio(Cur))
StopTwice == Commit(stopAudio(StopOnce))

\* C13: stopAudio is idempotent: from every reachable state, stopping twice
\* gives the same machine as stopping once, which is idle with no registered
\* source; and from the idle state with no registered source, stopping
\* changes no component of the machine.
C13_StopIdempotent ==
  /\ StopTwice = StopOnce
  /\ AudioStateOf(StopOnce) = initialAudioState
  /\ StopOnce.sourceNodeRef = 0
  /\ ( /\ status = "idle" /\ currentSegmentIndex = NULL /\ ~isContinuous
       /\ sourceNodeRef = 0 )
     => StopOnce = Cur

\* C13 witness: a state where stopping is not the identity: playing on a
\* live registered source, which the stop silences and deregisters.
C13_Witness ==
  /\ status = "playing"
  /\ RegisteredLive
  /\ StopOnce # Cur
  /\ StopOnce.sources[sourceNodeRef].state # "live"

\* positions, in the list given to rehydrate, of the buffers in the store
StoredPositions == [j \in 1..Len(audioBuffers) |-> audioBuffers[j][2]]

\* C14: for every list of payloads and every order in which the decodes
\* settle, the store that rehydrate leaves holds exactly the payloads that
\* decode, each once, in their positional order, so its length is at most
\* the number of payloads.
C14_RehydrateCompacts ==
  rehydrateState = "stored" =>
    /\ Len(audioBuffers) <= Len(payloads)
    /\ \A j \in 1..(Len(audioBuffers) - 1) : StoredPositions[j] < StoredPositions[j + 1]
    /\ {StoredPositions[j] : j \in 1..Len(audioBuffers)}
         = {i - 1 : i \in {p \in 1..Len(payloads) : payloads[p] = "ok"}}
    /\ audioBuffers = Compact(0, payloads, 1)

\* C14 witness: the store after the rehydrate of three payloads of which the
\* middle one is empty: two buffers, of positions 0 and 2.
C14_Witness ==
  /\ rehydrateState = "stored"
  /\ payloads = <<"ok", "empty", "ok">>
  /\ audioBuffers = << <<0, 0>>, <<0, 2>> >>

\* C17: decodeAudioData never raises: for an empty payload and for a payload
\* whose decoding throws it returns null; in a rehydrate, a payload that
\* gives null does not reject the Promise.all, and every payload that
\* decodes is in the store once the rehydrate has returned.
C17_DecodeNeverRaises ==
  /\ \A k \in PayloadKinds :
       /\ decodeAudioData(k) \in {"buffer", "null"}
       /\ (k = "empty" \/ TryDecode(k) = "throws") => decodeAudioData(k) = "null"
  /\ rehydrateState # "failed"
  /\ \A i \in 1..Len(decoded) :
       /\ decoded[i].kind \in {"pending", "buffer", "null"}
       /\ decoded[i].kind = "null" => payloads[i] # "ok"
       /\ decoded[i].kind = "buffer" => payloads[i] = "ok"
  /\ rehydrateState = "stored" =>
       \A i \in 1..Len(payloads) :
         payloads[i] = "ok" =>
           \E j \in 1..Len(audioBuffers) : audioBuffers[j] = <<0, i - 1>>

\* C17 witness: the rehydrate of an invalid, a good and an odd-length
\* payload has returned and the store holds the buffer of the good one.
C17_Witness ==
  /\ rehydrateState = "stored"
  /\ payloads = <<"bad", "ok", "odd">>
  /\ decoded[1].kind = "null" /\ decoded[3].kind = "null"
  /\ audioBuffers = << <<0, 1>> >>

NoSourceStarted ==
  \A y \in SourceIds : sources'[y].state = "live" => sources[y].state = "live"

\* C15: when the resume() awaited by a start of playback is rejected, the
\* error message is set, no source is created or started, no start remains
\* pending, and the state becomes idle with currentSegmentIndex null.
C15_ResumeFailureStops ==
  [][ ResumeRejected =>
        /\ error' = "resume"
        /\ status' = "idle" /\ currentSegmentIndex' = NULL /\ ~isContinuous'
        /\ NoSourceStarted
        /\ pendingRuns' = <<>> ]_vars

\* C15 witness: the resume() of a start of segment 1 was rejected: the error
\* is set, the state is idle, nothing sounds and the context is suspended.
C15_Witness ==
  /\ error = "resume"
  /\ status = "idle" /\ currentSegmentIndex = NULL
  /\ effectDeps[1] = "playing" /\ effectDeps[2] = 1
  /\ audioContext = "suspended"
  /\ pendingRuns = <<>> /\ Live = {} /\ sourceNodeRef = 0

\* the playing state that the engine has still to react to has no buffer
NoBufferToPlay ==
  /\ status = "playing" /\ currentSegmentIndex # NULL
  /\ EffectPending(Cur)
  /\ (currentSegmentIndex >= Len(audioBuffers) \/ audioContext = "none")

\* C16: when the state has entered playing at an index for which there is
\* no buffer, the only step that can follow is the engine's reaction, and it
\* creates no source, waits on no resume(), sets no error and moves the
\* state to idle, in continuous and in single-segment mode: idle is reached
\* in one step, with no completion event.
C16_MissingBufferEnds ==
  [][ NoBufferToPlay =>
        /\ RunEffect
        /\ status' = "idle" /\ currentSegmentIndex' = NULL /\ ~isContinuous'
        /\ error' = error
        /\ pendingRuns' = pendingRuns
        /\ NoSourceStarted ]_vars

\* C16 witness: a continuous play of index 0 of a story whose store is empty
\* has been ended by the engine: idle, no error, nothing sounding.
C16_Witness ==
  /\ status = "idle" /\ currentSegmentIndex = NULL
  /\ effectDeps[1] = "playing" /\ effectDeps[2] = 0 /\ effectDeps[3] = TRUE
  /\ story # 0 /\ audioBuffers = <<>>
  /\ error = "none"
  /\ pendingRuns = <<>> /\ Live = {}

\* C18: whenever the registered source is live and the engine has reacted
\* to the last render, the rate of that source is the selected playback
\* rate, also for a source whose start was waiting on resume() when the
\* rate was changed.
C18_LiveSourceHasSelectedRate ==
  (RegisteredLive /\ ~EffectPending(Cur)) =>
    sources[sourceNodeRef].rate = playbackRate

\* source y is started in the step
Started(y) == sources[y].state # "live" /\ sources'[y].state = "live"

\* C19: every source that is started is bound to a buffer decoded from the
\* payloads of the story that is displayed when it starts.
C19_StartedFromDisplayedStory ==
  [][ \A y \in SourceIds :
        Started(y) => (story' # 0 /\ sources'[y].buffer[1] = story') ]_vars

\* C20: at most one playCurrentSegment run is in progress at any time: no
\* second run is suspended on resume() while an earlier one still is.
C20_OneStartInProgress == Len(pendingRuns) <= 1

\* C21: the completion of a source changes the playback state only when
\* status is playing: processed while status is paused or idle it leaves
\* status, currentSegmentIndex and isContinuous unchanged.
C21_EndedOnlyWhenPlaying ==
  [][ \A x \in SourceIds :
        (SourceEnded(x) /\ status # "playing") => audioState' = audioState ]_vars

\* the handlers that call stopAudio
StopCommand == Generate \/ OptionsChange \/ LanguageChange \/ LoadStoryFromHistory

\* C22: a stop issued while status is playing or paused yields idle with
\* currentSegmentIndex null and isContinuous false; the registered source is
\* stopped, its completion callback is cleared and it is deregistered.
C22_StopResets ==
  [][ (StopCommand /\ status \in {"playing", "paused"})
      => ( /\ status' = "idle" /\ currentSegmentIndex' = NULL /\ ~isContinuous'
           /\ sourceNodeRef' = 0
           /\ sourceNodeRef # 0 =>
                /\ sources'[sourceNodeRef].state # "live"
                /\ ~sources'[sourceNodeRef].onended ) ]_vars

\* C22 witness: the story was discarded by a stop command during a play on
\* a sounding source: idle, no story, nothing registered, nothing sounding.
C22_Witness ==
  /\ status = "idle" /\ currentSegmentIndex = NULL /\ ~isContinuous
  /\ effectDeps[1] = "playing"
  /\ story = 0 /\ genPending = 0 /\ error = "none"
  /\ audioContext = "running"
  /\ sourceNodeRef = 0 /\ Live = {}

\* buffer b, bound for index i, is entry i of the store, and it is the audio
\* of a later sentence when a payload at or before position i was dropped
BoundToEntry(b, i) ==
  /\ i < Len(audioBuffers)
  /\ b = audioBuffers[i + 1]
  /\ (\E p \in 1..(i + 1) : decodeAudioData(Stories[b[1]][p]) # "buffer") => b[2] > i

\* C23: the engine binds the source for currentSegmentIndex i to entry i of
\* the compacted store, without renumbering: the source started, or the
\* start left waiting on resume(), holds audioBuffers[i], which past a
\* dropped payload is the audio of a later sentence, while the index of the
\* state stays i.
C23_BindsCompactedEntry ==
  [][ RunEffect =>
        /\ \A y \in SourceIds :
             Started(y) =>
               /\ sources'[y].index = currentSegmentIndex
               /\ BoundToEntry(sources'[y].buffer, currentSegmentIndex)
               /\ currentSegmentIndex' = currentSegmentIndex
        /\ Len(pendingRuns') > Len(pendingRuns) =>
               /\ pendingRuns'[Len(pendingRuns')].index = currentSegmentIndex
               /\ BoundToEntry(pendingRuns'[Len(pendingRuns')].buffer, currentSegmentIndex)
               /\ currentSegmentIndex' = currentSegmentIndex ]_vars

\* C23 witness: in the story whose payload 2 is empty, the source of segment
\* 2 sounds the audio of sentence 3 while index 2 is the current one.
C23_Witness ==
  /\ story = 2
  /\ status = "playing" /\ currentSegmentIndex = 2
  /\ RegisteredLive
  /\ sources[sourceNodeRef].index = 2
  /\ sources[sourceNodeRef].buffer = <<2, 3>>

\* C24: whenever status is idle or paused no source is live, also after a
\* pause or a stop issued while a start was waiting on resume().
C24_SilentWhenNotPlaying ==
  status \in {"idle", "paused"} => Live = {}

\* C25: in every reachable state status is idle exactly when
\* currentSegmentIndex is null, and idle implies isContinuous false.
C25_IdleIffNoIndex ==
  /\ (status = "idle") <=> (currentSegmentIndex = NULL)
  /\ status = "idle" => ~isContinuous

\* C25 witness: idle reached by the end of the story: the source of the last
\* segment of a continuous play has completed.
C25_Witness ==
  /\ status = "idle" /\ currentSegmentIndex = NULL /\ ~isContinuous
  /\ effectDeps[1] = "playing" /\ effectDeps[3] = TRUE
  /\ effectDeps[2] = Len(audioBuffers) - 1
  /\ sourceNodeRef # 0
  /\ sources[sourceNodeRef].state = "ended"

\* the reducer state after a PAUSE action in the current state
AfterPause == audioReducer(AudioStateOf(Cur), PAUSE)

\* C26: a PAUSE action processed while status is idle or paused leaves
\* status, currentSegmentIndex and isContinuous unchanged.
C26_PauseWhenNotPlaying ==
  status \in {"idle", "paused"} => AfterPause = AudioStateOf(Cur)

\* C26 witness: a continuous play paused at index 1, in which a further
\* PAUSE changes nothing.
C26_Witness ==
  /\ status = "paused" /\ currentSegmentIndex = 1 /\ isContinuous
  /\ AfterPause.status = "paused" /\ AfterPause.currentSegmentIndex = 1

\* the engine reacts to a change of the playback rate alone
RateOnlyEffect ==
  /\ RunEffect
  /\ effectDeps = <<status, currentSegmentIndex, isContinuous, effectDeps[4]>>

\* C27: a change of the playback rate while status is idle or paused, and
\* the engine's reaction to it, change neither status, currentSegmentIndex
\* nor isContinuous, and create or start no source.
C27_RateChangeWhenNotPlaying ==
  [][ ((SetRate \/ RateOnlyEffect) /\ status \in {"idle", "paused"})
      => ( /\ audioState' = audioState
           /\ NoSourceStarted
           /\ pendingRuns' = pendingRuns
           /\ sourceNodeRef' = sourceNodeRef ) ]_vars

\* C27 witness: the rate was changed while paused at index 1 and the engine
\* has reacted: still paused at index 1, nothing registered.
C27_Witness ==
  /\ status = "paused" /\ currentSegmentIndex = 1
  /\ playbackRate # InitialRate
  /\ effectDeps = <<"paused", 1, isContinuous, playbackRate>>
  /\ sourceNodeRef = 0 /\ pendingRuns = <<>> /\ Live = {}

\* C28: every story that generateStory returns has segments and audio of
\* equal non-zero length, audio[j] being the non-empty payload synthesized
\* for segments[j]; the segments kept are exactly those whose synthesis gave
\* audio, in their order; and the call fails, returning no story, exactly
\* when no segment has audio.
C28_GeneratedStoryAligned ==
  /\ generated.state = "returned" =>
       /\ Len(generated.segments) = Len(generated.audio)
       /\ Len(generated.segments) > 0
       /\ \A j \in 1..Len(generated.segments) :
            generated.audio[j] = <<"audio", generated.segments[j]>>
       /\ \A j \in 1..(Len(generated.segments) - 1) :
            generated.segments[j] < generated.segments[j + 1]
       /\ {generated.segments[j] : j \in 1..Len(generated.segments)}
            = {i - 1 : i \in {p \in 1..Len(ttsOutcomes) : ttsOutcomes[p] = "audio"}}
  /\ generated.state \in {"returned", "failed"} =>
       ( generated.state = "failed"
         <=> \A p \in 1..Len(ttsOutcomes) : ttsOutcomes[p] # "audio" )
  /\ generated.state = "failed" =>
       generated.segments = <<>> /\ generated.audio = <<>>

\* C28 witness: of three segments the middle one got no audio: the story
\* returned has segments 0 and 2 with their payloads.
C28_Witness ==
  /\ ttsOutcomes = <<"audio", "none", "audio">>
  /\ generated.state = "returned"
  /\ generated.segments = <<0, 2>>
  /\ generated.audio = << <<"audio", 0>>, <<"audio", 2>> >>

\* the URLs 0, 1, ..., n - 1 in order, each once
FirstUrls(n) == [j \in 1..n |-> j - 1]

\* the stream error that fails the last URL of an open request
LastUrlFails ==
  /\ radio.open
  /\ RadioError
  /\ radio.currentStreamIndex + 1 = radio.urls

\* C29: while a play request for a language with k >= 1 URLs is open the
\* player is loading URL currentStreamIndex and the URLs it has tried for
\* the request are 0, 1, ..., currentStreamIndex, in order and each once;
\* when the last of the k URLs fails the player ends with the error
\* message set, isLoading false and isPlaying false, after trying all k;
\* and the playing event ends with isPlaying true, isLoading false and no
\* error.
C29_RadioFallback ==
  /\ [](radio.open =>
         /\ radio.urls >= 1
         /\ radio.isLoading /\ ~radio.isPlaying /\ radio.error = "none"
         /\ radio.currentStreamIndex < radio.urls
         /\ radio.element = "loading" /\ radio.src = radio.currentStreamIndex
         /\ radio.tried = FirstUrls(radio.currentStreamIndex + 1))
  /\ [][LastUrlFails =>
          /\ radio'.error = "allFailed"
          /\ ~radio'.isLoading /\ ~radio'.isPlaying /\ ~radio'.open
          /\ radio'.tried = FirstUrls(radio.urls)]_vars
  /\ [][RadioPlaying =>
          /\ radio'.isPlaying /\ ~radio'.isLoading /\ radio'.error = "none"
          /\ ~radio'.open]_vars

\* every one of at least two URLs was tried and failed
C29_Witness ==
  /\ radio.urls >= 2
  /\ radio.error = "allFailed"
  /\ radio.tried = FirstUrls(radio.urls)
  /\ ~radio.isLoading /\ ~radio.isPlaying

====
